---- MODULE Spec2Model ----
(***************************************************************************)
(* Quote-request intake form: the browser form (src/src/App.tsx), its      *)
(* notification pipeline (emailService) and the persisted tables.          *)
(***************************************************************************)
EXTENDS Integers, Sequences, FiniteSets, TLC

\* ------------------------------------------------------------------ bounds
\* total number of handleSubmit invocations explored
MaxSubmits == 2
\* total number of toggleService and handleChange events explored
MaxEvents == 4
\* number of catalog checkboxes the explored user clicks on
NumOffered == 2
\* number of form inputs the explored user types into
NumTyped == 3
\* number of checkboxes and number of clicks explored on the selection alone
NumToggleIds == 3
MaxToggles == 6
\* number of ids foreign to the catalog whose titles are resolved
NumForeign == 3
\* total number of requests the quote-request handler receives
MaxCalls == 1
\* total number of insert transactions the database runs
MaxTxns == 3
\* total number of submissions when the form and the handler run together
MaxBoth == 2
\* total number of requests the send-email handler receives
MaxMailCalls == 1
\* total number of requests when both handlers are deployed together
MaxHandlerCalls == 1
\* total number of submitVendorQuote calls, and the relationship lists the
\* explored callers fill in
MaxVendorRuns == 1
NumRelationKinds == 3
\* most services, wrapped message lines and wrapped name lines of a PDF
MaxPdfServices == 8
MaxMessageLines == 4
MaxNameLines == 3
\* last reading of the database clock
MaxClock == 2
\* clock readings per calendar month
TicksPerMonth == 2

\* ------------------------------------------------------------- the catalog
Null == "<null>"

SERVICE_CATEGORIES ==
  <<
    [id |-> "ideation", services |-> <<
        [id |-> "market-research", title |-> "Market Research & Consumer Insights"],
        [id |-> "competitive-benchmark", title |-> "Competitive Benchmarking"],
        [id |-> "feasibility", title |-> "Feasibility Studies"],
        [id |-> "concept-dev", title |-> "Product Concept Development"],
        [id |-> "validation", title |-> "Validation & Pilot Testing"] >>],
    [id |-> "design", services |-> <<
        [id |-> "industrial-design", title |-> "Industrial / Product Design"],
        [id |-> "graphic-design", title |-> "Graphic & Logo Design"],
        [id |-> "ux-ui", title |-> "UX / UI Design"],
        [id |-> "photo-video", title |-> "Product Photography & Videography"],
        [id |-> "prototyping", title |-> "Prototyping & 3D Rendering"] >>],
    [id |-> "branding", services |-> <<
        [id |-> "brand-strategy", title |-> "Brand Strategy & Positioning"],
        [id |-> "logo-identity", title |-> "Logo & Identity"],
        [id |-> "messaging", title |-> "Messaging & Copywriting"],
        [id |-> "guidelines", title |-> "Brand Guidelines"],
        [id |-> "localization", title |-> "Multilingual Branding"] >>],
    [id |-> "packaging", services |-> <<
        [id |-> "pack-design", title |-> "Packaging Design (structural + aesthetic)"],
        [id |-> "eco-pack", title |-> "Sustainable / Eco Packaging"],
        [id |-> "labeling", title |-> "Compliance Labeling"],
        [id |-> "smart-pack", title |-> "QR / Smart Packaging"],
        [id |-> "print-prod", title |-> "Print & Production Management"] >>],
    [id |-> "digital", services |-> <<
        [id |-> "website", title |-> "Corporate Website Development"],
        [id |-> "ecommerce", title |-> "E-commerce Store Setup"],
        [id |-> "seo", title |-> "SEO & Listing Optimization"],
        [id |-> "landing", title |-> "Product Landing Pages"],
        [id |-> "catalog", title |-> "Digital Catalogs & Brochures"] >>],
    [id |-> "marketing", services |-> <<
        [id |-> "social", title |-> "Social Media Strategy & Content"],
        [id |-> "influencer", title |-> "Influencer & Affiliate Partnerships"],
        [id |-> "pr", title |-> "PR & Media Outreach"],
        [id |-> "ads", title |-> "Paid Advertising Campaigns"],
        [id |-> "tradeshows", title |-> "Trade Show Representation"] >>],
    [id |-> "compliance", services |-> <<
        [id |-> "certs", title |-> "Product Certification Support"],
        [id |-> "ip", title |-> "Intellectual Property Assistance"],
        [id |-> "export-docs", title |-> "Export Documentation Support"],
        [id |-> "safety", title |-> "Safety & Regulatory Compliance"] >>],
    [id |-> "manufacturing", services |-> <<
        [id |-> "sourcing", title |-> "Supplier & Vendor Sourcing"],
        [id |-> "small-batch", title |-> "Small-Batch Production Setup"],
        [id |-> "contract-man", title |-> "Contract Manufacturing"],
        [id |-> "qa", title |-> "Quality Assurance & Testing"],
        [id |-> "inventory", title |-> "Inventory & Warehouse Consulting"] >>],
    [id |-> "finance", services |-> <<
        [id |-> "trade-finance", title |-> "Trade Finance Access"],
        [id |-> "grants", title |-> "Grants & Funding Advisory"],
        [id |-> "insurance", title |-> "Export & Product Insurance"],
        [id |-> "liability", title |-> "Product Liability Insurance"] >>],
    [id |-> "growth", services |-> <<
        [id |-> "distributor", title |-> "Distributor & Retailer Matchmaking"],
        [id |-> "feedback", title |-> "Customer Feedback Loops"],
        [id |-> "scaling", title |-> "Iteration & SKU Scaling"],
        [id |-> "licensing", title |-> "Licensing & Franchising"] >>]
  >>

\* services.find / the nested scan: position of the first service with this id
RECURSIVE FindService(_, _, _)
FindService(cats, ci, id) ==
  IF ci > Len(cats) THEN Null
  ELSE LET svcs == cats[ci].services
           hits == {i \in 1..Len(svcs) : svcs[i].id = id}
       IN IF hits # {}
            THEN svcs[CHOOSE i \in hits : \A j \in hits : i <= j].title
            ELSE FindService(cats, ci + 1, id)

\* the title a selected id is persisted and mailed under
ServiceNameMut(serviceId) == serviceId
ServiceName(serviceId) ==
  LET t == FindService(SERVICE_CATEGORIES, 1, serviceId)
  IN IF t # Null /\ t # "" THEN t ELSE serviceId

serviceTitleByIdMut(id) ==
  LET t == FindService(SERVICE_CATEGORIES, 2, id)
  IN IF t # Null THEN t ELSE id
serviceTitleById(id) ==
  LET t == FindService(SERVICE_CATEGORIES, 1, id)
  IN IF t # Null THEN t ELSE id

\* the checkboxes clicked in the explored runs, taken from the catalog
ClickOrder ==
  <<"market-research", "website", "seo", "licensing", "pr", "qa">>
OfferedIdsMut == {ClickOrder[i] : i \in 1..NumOffered} \cup {"unknown"}
OfferedIds == {ClickOrder[i] : i \in 1..NumOffered}
ToggleIds == {ClickOrder[i] : i \in 1..NumToggleIds}

\* ------------------------------------------------------------------- state
VARIABLES
  selected,               \* useState<string[]>([]): the selected service ids
  form,                   \* useState({name, company, ...})
  submitting,             \* useState(false)
  success,                \* useState<string | null>(null)
  error,                  \* useState<string | null>(null)
  runs,                   \* the invocations of handleSubmit, in order
  quote_requests,         \* rows of table quote_requests
  quote_request_services, \* rows of table quote_request_services
  emails,                 \* sends attempted by the notification pipeline
  now,                    \* the clock read by Date.now()
  nEvents,                \* toggleService and handleChange events so far
  toggles,                \* how often each service id has been toggled
  lookups,                \* the titles resolved for a list of service ids
  calls,                  \* the invocations of the quote-request handler
  sent,                   \* sendEmail calls made by the quote-request handler
  txns,                   \* INSERTs into quote_requests under way in the database
  docs,                   \* the PDFs generated, each with the lines it drew
  mailCalls,              \* the invocations of the send-email handler
  vendorRuns              \* the invocations of submitVendorQuote

\* the state outside the browser form
aux == <<toggles, lookups, calls, sent, txns, docs, mailCalls, vendorRuns>>

vars == <<selected, form, submitting, success, error, runs, quote_requests,
          quote_request_services, emails, now, nEvents, toggles, lookups,
          docs, mailCalls, vendorRuns, calls, sent, txns>>

Fields == {"name", "company", "email", "phone", "budget", "timeline", "message"}

\* what the explored user types or picks in each input
FieldValues(f) ==
  CASE f = "name"     -> {"", "Jane Doe"}
    [] f = "company"  -> {"", "Acme"}
    [] f = "email"    -> {"", "jane@x.com", "jane"}
    [] f = "phone"    -> {"", "555"}
    [] f = "budget"   -> {"", "5k-20k"}
    [] f = "timeline" -> {"", "1-3"}
    [] f = "message"  -> {"", "hello"}

\* the inputs of the form the explored user edits, required ones first
TypeOrder ==
  <<"name", "email", "message", "phone", "company", "budget", "timeline">>
TypedFields == {TypeOrder[i] : i \in 1..NumTyped}

EmptyFormMut ==
  [name |-> "", company |-> "", email |-> "", phone |-> "", budget |-> "",
   timeline |-> "", message |-> "hello"]
EmptyForm ==
  [name |-> "", company |-> "", email |-> "", phone |-> "", budget |-> "",
   timeline |-> "", message |-> ""]

ValidationMessage ==
  "Please provide your name, email and select at least one service."
SuccessMessage ==
  "Request sent successfully. Our team will contact you shortly."
FallbackMessage == "We couldn't submit your request. Try again later."

\* ------------------------------------------------------- selection and form
toggleServicePrepend(prev, serviceId) ==
  IF \E i \in 1..Len(prev) : prev[i] = serviceId
    THEN SelectSeq(prev, LAMBDA s : s # serviceId)
    ELSE <<serviceId>> \o prev
toggleServiceKeep(prev, serviceId) ==
  IF \E i \in 1..Len(prev) : prev[i] = serviceId
    THEN prev
    ELSE Append(prev, serviceId)
toggleService(prev, serviceId) ==
  IF \E i \in 1..Len(prev) : prev[i] = serviceId
    THEN SelectSeq(prev, LAMBDA s : s # serviceId)
    ELSE Append(prev, serviceId)

isSelected(serviceId) == \E i \in 1..Len(selected) : selected[i] = serviceId

handleChangeFormMut(f, name, value) == [EmptyForm EXCEPT ![name] = value]
handleChangeForm(f, name, value) == [f EXCEPT ![name] = value]

\* -------------------------------------------------- notification pipeline
\* the characters of the names and addresses the explored user types
Chars(s) ==
  CASE s = ""           -> <<>>
    [] s = "Jane Doe"   -> <<"J", "a", "n", "e", " ", "D", "o", "e">>
    [] s = "jane@x.com" -> <<"j", "a", "n", "e", "@", "x", ".", "c", "o", "m">>
    [] s = "jane"       -> <<"j", "a", "n", "e">>

Whitespace == {" ", "\t", "\n"}

\* s.trim().length === 0
IsBlank(s) == \A i \in 1..Len(Chars(s)) : Chars(s)[i] \in Whitespace

\* /^[^\s@]+@[^\s@]+\.[^\s@]+$/.test(s)
MatchesEmail(s) ==
  LET c == Chars(s)
      plain(a, b) == \A k \in a..b : c[k] \notin Whitespace \cup {"@"}
  IN \E i \in 2..Len(c), j \in 3..Len(c) :
       /\ c[i] = "@" /\ c[j] = "." /\ i + 1 < j /\ j < Len(c)
       /\ plain(1, i - 1) /\ plain(i + 1, j - 1) /\ plain(j + 1, Len(c))

validateQuoteRequestData(data) ==
  (IF data.name = "" \/ IsBlank(data.name) THEN <<"Name is required">> ELSE <<>>)
  \o (IF data.email = "" \/ IsBlank(data.email) THEN <<"Email is required">>
      ELSE IF ~MatchesEmail(data.email)
        THEN <<"Valid email address is required">> ELSE <<>>)
  \o (IF Len(data.selectedServices) = 0
        THEN <<"At least one service must be selected">> ELSE <<>>)

sendQuoteRequestEmailsBoth(adminEmailSent, clientEmailSent) ==
  IF adminEmailSent /\ clientEmailSent
    THEN [success |-> TRUE, message |-> <<"Quote request emails sent successfully">>]
  ELSE [success |-> FALSE, message |-> <<"Failed to send quote request emails">>]
sendQuoteRequestEmailsEither(adminEmailSent, clientEmailSent) ==
  IF adminEmailSent /\ clientEmailSent
    THEN [success |-> TRUE, message |-> <<"Quote request emails sent successfully">>]
  ELSE IF adminEmailSent \/ clientEmailSent
    THEN [success |-> TRUE,
          message |-> <<"Admin notification sent, but client confirmation failed">>]
  ELSE [success |-> FALSE, message |-> <<"Failed to send quote request emails">>]
\* the result sendQuoteRequestEmails returns once both sends have resolved
sendQuoteRequestEmails(adminEmailSent, clientEmailSent) ==
  IF adminEmailSent /\ clientEmailSent
    THEN [success |-> TRUE, message |-> <<"Quote request emails sent successfully">>]
  ELSE IF adminEmailSent
    THEN [success |-> TRUE,
          message |-> <<"Admin notification sent, but client confirmation failed">>]
  ELSE [success |-> FALSE, message |-> <<"Failed to send quote request emails">>]

ValidationFailed(errors) ==
  [success |-> FALSE, message |-> <<"Validation failed: ">> \o errors]

NoResult == [success |-> FALSE, message |-> <<>>]

\* ------------------------------------------------------------ handleSubmit
\* the submit button: disabled={submitting}
SubmitDisabledMut == FALSE
SubmitDisabled == submitting

\* the required-field check at submit time
ValidSubmitMut(f, sel) == ~(f.name = "" \/ f.email = "")
ValidSubmit(f, sel) == ~(f.name = "" \/ f.email = "" \/ Len(sel) = 0)

OrNull(v) == IF v = "" THEN Null ELSE v

\* the row handed to supabase.from('quote_requests').insert
QuoteInsert(f, t) ==
  [name |-> f.name, email |-> f.email, phone |-> OrNull(f.phone),
   company |-> OrNull(f.company), message |-> OrNull(f.message),
   status |-> "pending", request_number |-> <<"REQ-", t>>, created_at |-> t]

\* selected.map(serviceId => ({quote_request_id, service_name, ...}))
serviceInserts(sel, quoteId) ==
  [i \in 1..Len(sel) |->
     [quote_request_id |-> quoteId, service_name |-> ServiceName(sel[i]),
      custom_description |-> Null, estimated_price |-> Null,
      final_price |-> Null]]

emailData(f, sel, t) ==
  [name |-> f.name, company |-> f.company, email |-> f.email,
   phone |-> f.phone, budget |-> f.budget, timeline |-> f.timeline,
   message |-> f.message,
   selectedServices |-> [i \in 1..Len(sel) |-> serviceTitleById(sel[i])],
   timestamp |-> t]

\* what the database client can answer to an insert
DbErrors == {"duplicate key value violates unique constraint"}
\* what an awaited call can reject with: an Error, or a value that is not one
Rejections ==
  {[isError |-> TRUE, message |-> "TypeError: Failed to fetch"],
   [isError |-> FALSE, message |-> "aborted"]}

\* if (quoteError) throw new Error(...)
QuoteErrorThrownMut(quoteError) == [isError |-> TRUE, message |-> quoteError]
QuoteErrorThrown(quoteError) ==
  [isError |-> TRUE, message |-> "Failed to save quote request"]

\* if (servicesError) ...
ServicesInsertFailedMut(servicesError) == FALSE
ServicesInsertFailed(servicesError) == servicesError # Null

ServicesErrorThrownMut(servicesError) ==
  [isError |-> TRUE, message |-> "Failed to save quote request"]
ServicesErrorThrown(servicesError) ==
  [isError |-> TRUE, message |-> "Failed to save selected services"]

\* if (!emailResult.success) console.warn(...): nothing is thrown
EmailFailureThrowsMut(emailResult) == ~emailResult.success
EmailFailureThrows(emailResult) == FALSE

\* catch (err): the message shown
CaughtMessageMut(err) == err.message
CaughtMessage(err) == IF err.isError THEN err.message ELSE FallbackMessage

\* finally { setSubmitting(false) }
FinallySubmittingMut(completed) == ~completed
FinallySubmitting(completed) == FALSE

InFlight == {"insertQuote", "insertServices", "sendAdmin", "sendClient"}
Resolved == {"invalid", "failed", "done"}

NewRun(pc, f, sel, t) ==
  [pc |-> pc, form |-> f, selected |-> sel, timestamp |-> t, quoteId |-> 0,
   quoteError |-> Null, servicesError |-> Null, servicesInserted |-> FALSE,
   adminEmailSent |-> FALSE, emailResult |-> NoResult, thrown |-> FALSE]

Init ==
  /\ selected = <<>>
  /\ form = EmptyForm
  /\ submitting = FALSE
  /\ success = Null
  /\ error = Null
  /\ runs = <<>>
  /\ quote_requests = <<>>
  /\ quote_request_services = <<>>
  /\ emails = <<>>
  /\ now = 0
  /\ nEvents = 0
  /\ toggles = [id \in ToggleIds |-> 0]
  /\ lookups = <<>>
  /\ docs = <<>>
  /\ mailCalls = <<>>
  /\ vendorRuns = <<>>
  /\ calls = <<>>
  /\ sent = <<>>
  /\ txns = <<>>

\* a checkbox of the catalogue, or the Remove button of a selected service
ToggleService ==
  /\ nEvents < MaxEvents
  /\ \E id \in OfferedIds \cup {selected[i] : i \in 1..Len(selected)} :
       selected' = toggleService(selected, id)
  /\ nEvents' = nEvents + 1
  /\ UNCHANGED <<form, submitting, success, error, runs, quote_requests,
                 quote_request_services, emails, now>>
  /\ UNCHANGED aux

HandleChange ==
  /\ nEvents < MaxEvents
  /\ \E name \in TypedFields : \E value \in FieldValues(name) \ {form[name]} :
       form' = handleChangeForm(form, name, value)
  /\ nEvents' = nEvents + 1
  /\ UNCHANGED <<selected, submitting, success, error, runs, quote_requests,
                 quote_request_services, emails, now>>
  /\ UNCHANGED aux

\* handleSubmit up to its first await
HandleSubmit ==
  /\ ~SubmitDisabled
  /\ Len(runs) < MaxSubmits
  /\ now' = now + 1
  /\ IF ~ValidSubmit(form, selected)
       THEN /\ error' = ValidationMessage
            /\ runs' = Append(runs, NewRun("invalid", form, selected, now'))
            /\ UNCHANGED submitting
       ELSE /\ error' = Null
            /\ submitting' = TRUE
            /\ runs' = Append(runs, NewRun("insertQuote", form, selected, now'))
  /\ UNCHANGED <<selected, form, success, quote_requests,
                 quote_request_services, emails, nEvents>>
  /\ UNCHANGED aux

\* the run goes on to its next await
Continue(r, run) ==
  /\ runs' = [runs EXCEPT ![r] = run]
  /\ UNCHANGED <<selected, form, submitting, success, error>>

\* catch (err) { setError(...) } finally { setSubmitting(false) }
Abort(r, run, err) ==
  /\ runs' = [runs EXCEPT ![r] = [run EXCEPT !.pc = "failed"]]
  /\ error' = CaughtMessage(err)
  /\ submitting' = FinallySubmitting(FALSE)
  /\ UNCHANGED <<selected, form, success>>

\* setSuccess, setSelected([]), setForm({...}), then finally
Complete(r, run) ==
  /\ runs' = [runs EXCEPT ![r] = [run EXCEPT !.pc = "done"]]
  /\ success' = SuccessMessage
  /\ selected' = <<>>
  /\ form' = EmptyForm
  /\ submitting' = FinallySubmitting(TRUE)
  /\ UNCHANGED error

\* emailResult is back from sendQuoteRequestEmails
AfterEmails(r, run) ==
  IF EmailFailureThrows(run.emailResult)
    THEN Abort(r, run, [isError |-> TRUE, message |-> "Email sending failed"])
    ELSE Complete(r, run)

\* sendQuoteRequestEmails up to its first await
StartEmails(r, run) ==
  LET errors == validateQuoteRequestData(emailData(run.form, run.selected, now))
  IN IF errors # <<>>
       THEN AfterEmails(r, [run EXCEPT !.emailResult = ValidationFailed(errors)])
       ELSE Continue(r, [run EXCEPT !.pc = "sendAdmin"])

\* the quote_requests insert resolves
QuoteInsertResolves ==
  \E r \in 1..Len(runs) :
    /\ runs[r].pc = "insertQuote"
    /\ \/ LET id == Len(quote_requests) + 1
              run == [runs[r] EXCEPT !.quoteId = id]
          IN /\ quote_requests' = Append(quote_requests,
                  [id |-> id] @@ QuoteInsert(run.form, run.timestamp))
             /\ IF Len(run.selected) > 0
                  THEN Continue(r, [run EXCEPT !.pc = "insertServices"])
                  ELSE StartEmails(r, run)
       \/ \E e \in DbErrors :
            /\ Abort(r, [runs[r] EXCEPT !.quoteError = e], QuoteErrorThrown(e))
            /\ UNCHANGED quote_requests
       \/ \E x \in Rejections :
            /\ Abort(r, [runs[r] EXCEPT !.thrown = TRUE], x)
            /\ UNCHANGED quote_requests
    /\ UNCHANGED <<quote_request_services, emails, now, nEvents>>
    /\ UNCHANGED aux

\* the quote_request_services insert resolves
ServicesInsertResolves ==
  \E r \in 1..Len(runs) :
    /\ runs[r].pc = "insertServices"
    /\ \/ /\ quote_request_services' = quote_request_services
                \o serviceInserts(runs[r].selected, runs[r].quoteId)
          /\ StartEmails(r, [runs[r] EXCEPT !.servicesInserted = TRUE])
       \/ \E e \in DbErrors :
            LET run == [runs[r] EXCEPT !.servicesError = e]
            IN /\ IF ServicesInsertFailed(e)
                    THEN Abort(r, run, ServicesErrorThrown(e))
                    ELSE StartEmails(r, run)
               /\ UNCHANGED quote_request_services
       \/ \E x \in Rejections :
            /\ Abort(r, [runs[r] EXCEPT !.thrown = TRUE], x)
            /\ UNCHANGED quote_request_services
    /\ UNCHANGED <<quote_requests, emails, now, nEvents>>
    /\ UNCHANGED aux

\* emailService.sendQuoteRequestEmail resolves
AdminSendResolves ==
  \E r \in 1..Len(runs) : \E ok \in BOOLEAN :
    /\ runs[r].pc = "sendAdmin"
    /\ emails' = Append(emails, [run |-> r, kind |-> "admin", ok |-> ok,
                  services |-> emailData(runs[r].form, runs[r].selected,
                                         now).selectedServices])
    /\ Continue(r, [runs[r] EXCEPT !.adminEmailSent = ok, !.pc = "sendClient"])
    /\ UNCHANGED <<quote_requests, quote_request_services, now, nEvents>>
    /\ UNCHANGED aux

\* emailService.sendClientConfirmationEmail resolves
ClientSendResolves ==
  \E r \in 1..Len(runs) : \E ok \in BOOLEAN :
    /\ runs[r].pc = "sendClient"
    /\ emails' = Append(emails, [run |-> r, kind |-> "client", ok |-> ok,
                  services |-> emailData(runs[r].form, runs[r].selected,
                                         now).selectedServices])
    /\ AfterEmails(r, [runs[r] EXCEPT !.emailResult =
                         sendQuoteRequestEmails(runs[r].adminEmailSent, ok)])
    /\ UNCHANGED <<quote_requests, quote_request_services, now, nEvents>>
    /\ UNCHANGED aux

Next ==
  \/ ToggleService
  \/ HandleChange
  \/ HandleSubmit
  \/ QuoteInsertResolves
  \/ ServicesInsertResolves
  \/ AdminSendResolves
  \/ ClientSendResolves

Spec == Init /\ [][Next]_vars

\* ------------------------------------------------------------ properties
RunIds == 1..Len(runs)
\* the run started by this step, if any
Started(r) == r = Len(runs) + 1 /\ Len(runs') = r
\* the run resolved by this step
ResolvedNow(r) == r \in RunIds /\ runs[r].pc \in InFlight /\ runs'[r].pc \in Resolved
ServiceRowsOf(id) ==
  SelectSeq(quote_request_services, LAMBDA row : row.quote_request_id = id)
RequestRowsOf(id) == SelectSeq(quote_requests, LAMBDA row : row.id = id)
EmailsOf(r) == SelectSeq(emails, LAMBDA m : m.run = r)

\* C1: a handleSubmit that finds the name, the email or the selection empty
\* issues no insert and no send, sets the error to the fixed validation
\* message and leaves the selection, the form and the submitting flag alone.
C1_ValidationFailureIsInert ==
  [][\A r \in 1..MaxSubmits + 1 :
       (Started(r) /\ (form.name = "" \/ form.email = "" \/ selected = <<>>))
         => /\ runs'[r].pc = "invalid"
            /\ quote_requests' = quote_requests
            /\ quote_request_services' = quote_request_services
            /\ emails' = emails
            /\ error' = "Please provide your name, email and select at least one service."
            /\ selected' = selected /\ form' = form
            /\ submitting' = submitting]_vars

\* a submission was rejected for an empty selection, one for an empty email
C1_Witness ==
  /\ \E r \in RunIds : runs[r].pc = "invalid" /\ runs[r].selected = <<>>
                       /\ runs[r].form.name # ""
  /\ \E r \in RunIds : runs[r].pc = "invalid" /\ runs[r].form.email = ""
                       /\ runs[r].selected # <<>>

\* C2: when the quote_requests insert fails, the run ends there: no
\* quote_request_services row, no email attempt, the error shown is exactly
\* "Failed to save quote request", and the selection and form are untouched.
C2_QuoteInsertFailure ==
  [][\A r \in RunIds :
       (runs[r].pc = "insertQuote" /\ runs'[r].quoteError # Null)
         => /\ runs'[r].pc = "failed"
            /\ quote_requests' = quote_requests
            /\ quote_request_services' = quote_request_services
            /\ emails' = emails /\ EmailsOf(r) = <<>>
            /\ error' = "Failed to save quote request"
            /\ error' \notin DbErrors
            /\ selected' = selected /\ form' = form]_vars

C2_Witness ==
  \E r \in RunIds : runs[r].quoteError # Null /\ runs[r].pc = "failed"
                    /\ error = "Failed to save quote request"

\* C3: once an attempt has resolved, a quote_requests row it created has one
\* quote_request_services row per selected service.
C3_RequestAndServicesAtomic ==
  \A r \in RunIds :
    (runs[r].pc \in Resolved /\ RequestRowsOf(runs[r].quoteId) # <<>>)
      => Len(ServiceRowsOf(runs[r].quoteId)) = Len(runs[r].selected)

\* C4: when the quote_request_services insert fails after the request insert
\* succeeded, the run aborts: no email attempt, success not set, the error is
\* exactly "Failed to save selected services", selection and form untouched.
C4_ServicesInsertFailure ==
  [][\A r \in RunIds :
       (runs[r].pc = "insertServices" /\ runs'[r].servicesError # Null)
         => /\ runs'[r].pc = "failed"
            /\ RequestRowsOf(runs[r].quoteId) # <<>>
            /\ emails' = emails /\ EmailsOf(r) = <<>>
            /\ success' = success
            /\ error' = "Failed to save selected services"
            /\ selected' = selected /\ form' = form]_vars

C4_Witness ==
  \E r \in RunIds : runs[r].servicesError # Null /\ runs[r].pc = "failed"
                    /\ error = "Failed to save selected services"
                    /\ runs[r].quoteId # 0

BothInsertsSucceeded(run) == run.quoteId # 0 /\ run.servicesInserted

\* C5: a run whose two inserts succeeded ends with the success message set
\* and no error message, whatever the notification pipeline returned.
C5_NotificationNeverFailsSubmission ==
  [][\A r \in RunIds :
       (ResolvedNow(r) /\ BothInsertsSucceeded(runs'[r]))
         => /\ runs'[r].pc = "done"
            /\ success' = "Request sent successfully. Our team will contact you shortly."
            /\ error' = Null]_vars

\* a submission reported success although both sends failed
C5_Witness ==
  \E r \in RunIds :
    /\ runs[r].pc = "done" /\ BothInsertsSucceeded(runs[r])
    /\ EmailsOf(r) # <<>> /\ \A i \in 1..Len(EmailsOf(r)) : ~EmailsOf(r)[i].ok
    /\ ~runs[r].emailResult.success
    /\ success # Null /\ error = Null

\* C6: when a run whose two inserts succeeded resolves, the selection is the
\* empty list and every form field is the empty string.
C6_SuccessClearsSelectionAndForm ==
  [][\A r \in RunIds :
       (ResolvedNow(r) /\ BothInsertsSucceeded(runs'[r]))
         => /\ selected' = <<>>
            /\ \A f \in Fields : form'[f] = ""]_vars

\* a submission with a non-empty message and two services has succeeded
C6_Witness ==
  \E r \in RunIds :
    /\ runs[r].pc = "done" /\ BothInsertsSucceeded(runs[r])
    /\ Len(runs[r].selected) = 2 /\ runs[r].form.name = "Jane Doe"
    /\ selected = <<>> /\ form.name = ""

\* C7: at most one run of handleSubmit is between its validation and its
\* resolution at any time.
C7_AtMostOneInFlight ==
  Cardinality({r \in RunIds : runs[r].pc \in InFlight}) <= 1

\* a second submission is in flight after the first one has resolved
C7_Witness ==
  /\ Len(runs) = 2
  /\ runs[1].pc = "failed"
  /\ runs[2].pc \in InFlight

\* C8: every step that resolves a run, with success, a failed insert or an
\* exception, sets the submitting flag back to false, and the flag is true
\* only while a run is in flight.
C8_SubmittingAlwaysReset ==
  [][/\ \A r \in RunIds : ResolvedNow(r) => submitting' = FALSE
     /\ submitting' => \E r \in 1..Len(runs') : runs'[r].pc \in InFlight]_vars

\* the flag is back to false after a run that ended in an exception
C8_Witness ==
  \E r \in RunIds : runs[r].pc = "failed" /\ runs[r].thrown /\ ~submitting

\* C9: within a run the request insert, the service-rows insert and the
\* notification happen in that order, each after the previous one succeeded.
C9_StepsInOrder ==
  \A r \in RunIds :
    LET run == runs[r]
        id  == run.quoteId
    IN /\ run.pc = "insertQuote"
            => id = 0 /\ ~run.servicesInserted /\ EmailsOf(r) = <<>>
       /\ run.pc = "insertServices"
            => /\ Len(RequestRowsOf(id)) = 1
               /\ ServiceRowsOf(id) = <<>>
               /\ EmailsOf(r) = <<>>
       /\ (run.pc \in {"sendAdmin", "sendClient"} \/ EmailsOf(r) # <<>>)
            => /\ Len(RequestRowsOf(id)) = 1
               /\ ServiceRowsOf(id) # <<>>
               /\ Len(ServiceRowsOf(id)) = Len(run.selected)
       /\ ServiceRowsOf(id) # <<>> => RequestRowsOf(id) # <<>>
       /\ run.pc = "sendClient" => Len(EmailsOf(r)) = 1

\* the notification of a run is under way, after both of its inserts
C9_Witness ==
  \E r \in RunIds : runs[r].pc = "sendClient" /\ Len(EmailsOf(r)) = 1
                    /\ Len(ServiceRowsOf(runs[r].quoteId)) = 2

\* the title of the catalog service with this id, the id itself if none
CatalogTitleOrId(id) ==
  LET titles == {SERVICE_CATEGORIES[c].services[i].title :
                   <<c, i>> \in {p \in (1..Len(SERVICE_CATEGORIES)) \X (1..5) :
                       /\ p[2] <= Len(SERVICE_CATEGORIES[p[1]].services)
                       /\ SERVICE_CATEGORIES[p[1]].services[p[2]].id = id}}
  IN IF titles = {} THEN id ELSE CHOOSE t \in titles : TRUE

\* C10: a successful submission with selection S has inserted exactly one
\* quote_requests row and |S| quote_request_services rows referencing it,
\* the i-th named by the catalog title of S[i] (the id itself when the
\* catalog has none), with the description and both prices null.
C10_RowsOfSuccessfulSubmission ==
  \A r \in RunIds :
    runs[r].pc = "done" =>
      LET S    == runs[r].selected
          id   == runs[r].quoteId
          rows == ServiceRowsOf(id)
      IN /\ Len(RequestRowsOf(id)) = 1
         /\ \A q \in RunIds : q # r /\ runs[q].quoteId # 0 => runs[q].quoteId # id
         /\ Len(rows) = Len(S)
         /\ \A i \in 1..Len(rows) :
              /\ rows[i].quote_request_id = id
              /\ rows[i].service_name = CatalogTitleOrId(S[i])
              /\ rows[i].custom_description = Null
              /\ rows[i].estimated_price = Null
              /\ rows[i].final_price = Null

\* the retry of a failed submission has persisted its two titled rows
C10_Witness ==
  \E r \in RunIds :
    /\ runs[r].pc = "done" /\ runs[r].quoteId = 2
    /\ runs[r].selected = <<"market-research", "website">>
    /\ ServiceRowsOf(2)[1].service_name = "Market Research & Consumer Insights"
    /\ ServiceRowsOf(2)[2].service_name = "Corporate Website Development"

\* the admin and the client send of a run whose pipeline has returned
SendsOf(r) == [admin |-> EmailsOf(r)[1], client |-> EmailsOf(r)[2]]
PipelineReturned(r) ==
  /\ runs[r].pc \in Resolved /\ Len(EmailsOf(r)) = 2
  /\ SendsOf(r).admin.kind = "admin" /\ SendsOf(r).client.kind = "client"

\* C14: for validated data, the pipeline returns success=true with the
\* message that the client confirmation failed when only the admin send
\* succeeded, and success=false whenever the admin send failed.
C14_AdminSendDecidesResult ==
  \A r \in RunIds :
    PipelineReturned(r) =>
      /\ (SendsOf(r).admin.ok /\ ~SendsOf(r).client.ok) =>
           /\ runs[r].emailResult.success
           /\ runs[r].emailResult.message =
                <<"Admin notification sent, but client confirmation failed">>
      /\ ~SendsOf(r).admin.ok => ~runs[r].emailResult.success

\* the admin send of a run succeeded and its client send failed
C14_Witness ==
  \E r \in RunIds :
    /\ PipelineReturned(r)
    /\ SendsOf(r).admin.ok /\ ~SendsOf(r).client.ok
    /\ runs[r].emailResult.success

\* C15 as stated: success=true only if both sends succeeded.
C15_SuccessOnlyIfBothSent ==
  \A r \in RunIds :
    runs[r].emailResult.success =>
      PipelineReturned(r) /\ SendsOf(r).admin.ok /\ SendsOf(r).client.ok

\* C15 as amended: success=true only if the admin notification send
\* succeeded; the client confirmation may have failed.
C15_SuccessOnlyIfAdminSent ==
  \A r \in RunIds :
    runs[r].emailResult.success => PipelineReturned(r) /\ SendsOf(r).admin.ok

\* the pipeline has returned success=true after sending both messages
C15_Witness ==
  \E r \in RunIds :
    /\ runs[r].emailResult =
         [success |-> TRUE,
          message |-> <<"Quote request emails sent successfully">>]
    /\ PipelineReturned(r) /\ SendsOf(r).admin.ok /\ SendsOf(r).client.ok

\* ------------------------------------------------- the selection on its own
\* clicks on the checkboxes and Remove buttons, with no submission between
ToggleOnly ==
  /\ nEvents < MaxToggles
  /\ \E id \in ToggleIds :
       /\ selected' = toggleService(selected, id)
       /\ toggles' = [toggles EXCEPT ![id] = @ + 1]
  /\ nEvents' = nEvents + 1
  /\ UNCHANGED <<form, submitting, success, error, runs, quote_requests,
                 quote_request_services, emails, now, lookups, docs, mailCalls, vendorRuns, calls, sent,
                 txns>>

SpecSelection == Init /\ [][ToggleOnly]_vars

Position(seq, id) == CHOOSE i \in 1..Len(seq) : seq[i] = id
Has(seq, id) == \E i \in 1..Len(seq) : seq[i] = id

\* C11: a toggle removes the id if it is selected and appends it at the end
\* if it is not; the other ids keep their relative order, and the selection
\* never holds an id twice.
C11_ToggleKeepsSelectionASet ==
  [][\A id \in ToggleIds :
       toggles'[id] = toggles[id] + 1 =>
         /\ \A i, j \in 1..Len(selected') :
              selected'[i] = selected'[j] => i = j
         /\ Has(selected, id) =>
              ~Has(selected', id) /\ Len(selected') = Len(selected) - 1
         /\ ~Has(selected, id) =>
              /\ Len(selected') = Len(selected) + 1
              /\ selected'[Len(selected')] = id
         /\ \A a, b \in ToggleIds \ {id} :
              /\ Has(selected', a) <=> Has(selected, a)
              /\ (Has(selected, a) /\ Has(selected, b)) =>
                   (Position(selected, a) < Position(selected, b)
                      <=> Position(selected', a) < Position(selected', b))]_vars

\* the first of three selected services has been removed again
C11_Witness ==
  /\ toggles["market-research"] = 2
  /\ selected = <<"website", "seo">>

\* C12: a service id is selected exactly when it has been toggled an odd
\* number of times.
C12_SelectedIffOddToggles ==
  \A id \in ToggleIds : isSelected(id) <=> toggles[id] % 2 = 1

\* one id toggled three times is selected, one toggled twice is not
C12_Witness ==
  /\ toggles["website"] = 3 /\ isSelected("website")
  /\ toggles["market-research"] = 2 /\ ~isSelected("market-research")

\* ------------------------------------------------- title resolution alone
CategoryIds == {SERVICE_CATEGORIES[c].id : c \in 1..Len(SERVICE_CATEGORIES)}
CatalogServiceIds ==
  UNION {{SERVICE_CATEGORIES[c].services[i].id :
            i \in 1..Len(SERVICE_CATEGORIES[c].services)} :
         c \in 1..Len(SERVICE_CATEGORIES)}
\* the ids resolved: every service of the catalog, and ids that are none
ForeignOrder == <<"SEO", "", "unknown", "seo ", "website-2">>
LookupIds ==
  CatalogServiceIds \cup CategoryIds
    \cup {ForeignOrder[i] : i \in 1..NumForeign}

\* the three places that turn a list of selected ids into titles
Lookup ==
  /\ lookups = <<>>
  /\ \E ids \in LookupIds \X LookupIds :
       lookups' = <<[ids       |-> ids,
                     displayed |-> [i \in 1..Len(ids) |->
                                      serviceTitleById(ids[i])],
                     persisted |-> [i \in 1..Len(ids) |->
                                      serviceInserts(ids, 1)[i].service_name],
                     emailed   |-> emailData(EmptyForm, ids, 0).selectedServices]>>
  /\ UNCHANGED <<selected, form, submitting, success, error, runs,
                 quote_requests, quote_request_services, emails, now, nEvents,
                 toggles, calls, sent, txns, docs, mailCalls, vendorRuns>>

SpecTitle == Init /\ [][Lookup]_vars

TitlesOf(id) ==
  {SERVICE_CATEGORIES[c].services[i].title :
     <<c, i>> \in {p \in (1..Len(SERVICE_CATEGORIES)) \X (1..5) :
                    /\ p[2] <= Len(SERVICE_CATEGORIES[p[1]].services)
                    /\ SERVICE_CATEGORIES[p[1]].services[p[2]].id = id}}

\* C13: serviceTitleById gives the title of the catalog service with the id,
\* and the id itself when the catalog has no such service; the persisted
\* service_name and the emailed title of an id are that same value.
C13_TitleResolution ==
  \A k \in 1..Len(lookups) : \A i \in 1..Len(lookups[k].ids) :
    LET id == lookups[k].ids[i]
    IN /\ id \in CatalogServiceIds => TitlesOf(id) = {lookups[k].displayed[i]}
       /\ id \notin CatalogServiceIds => lookups[k].displayed[i] = id
       /\ lookups[k].persisted[i] = lookups[k].displayed[i]
       /\ lookups[k].emailed[i] = lookups[k].displayed[i]

\* a catalog id and an id in the wrong case have been resolved together
C13_Witness ==
  /\ Len(lookups) = 1
  /\ lookups[1].ids = <<"seo", "SEO">>
  /\ lookups[1].displayed = <<"SEO & Listing Optimization", "SEO">>
  /\ lookups[1].persisted = lookups[1].displayed

\* ------------------------------------------- what a failure displays
FixedStrings ==
  {ValidationMessage, "Failed to save quote request",
   "Failed to save selected services", FallbackMessage}
ErrorMessages == {x.message : x \in {y \in Rejections : y.isError}}

\* C19 as stated: the error displayed is always one of the fixed strings.
C19_OnlyFixedStrings == error = Null \/ error \in FixedStrings

\* C19: when a submission fails the failure is caught and an error is
\* displayed: the validation message, the fixed string of the insert that
\* returned an error, or, for a rejected await, the message of the exception
\* if it is an Error and the generic fallback if it is not. The text of a
\* database error is never displayed.
C19_DisplayedError ==
  [][/\ (Len(runs') > Len(runs) /\ runs'[Len(runs')].pc = "invalid")
          => error' = ValidationMessage
     /\ \A r \in RunIds :
          (runs[r].pc \notin Resolved /\ runs'[r].pc = "failed")
            => /\ error' # Null
               /\ error' \notin DbErrors
               /\ runs'[r].quoteError # Null
                    => error' = "Failed to save quote request"
               /\ runs'[r].servicesError # Null
                    => error' = "Failed to save selected services"
               /\ runs'[r].thrown
                    => error' \in ErrorMessages \cup {FallbackMessage}
               /\ \/ runs'[r].quoteError # Null
                  \/ runs'[r].servicesError # Null
                  \/ runs'[r].thrown]_vars
C19_Witness ==
  \E r \in RunIds :
    /\ runs[r].pc = "failed"
    /\ runs[r].thrown
    /\ error \in ErrorMessages

\* ------------------------------------------- the quote-request handler
\* generate_quote_request_number: LPAD(counter::TEXT, 4, '0'), which cuts a
\* longer text down to its first four characters
PadWidth == 4
RECURSIVE Pow10(_)
Pow10(n) == IF n = 0 THEN 1 ELSE 10 * Pow10(n - 1)
RECURSIVE Lpad(_)
Lpad(counter) ==
  IF counter < Pow10(PadWidth) THEN counter ELSE Lpad(counter \div 10)

\* TO_CHAR(NOW(), 'YYYYMM')
MonthOf(t) == t \div TicksPerMonth

\* 'QR' || TO_CHAR(NOW(), 'YYYYMM') || the padded count of this month's rows
generate_quote_request_number(rows, t) ==
  LET month == MonthOf(t)
      counter == Cardinality({i \in 1..Len(rows) :
                     /\ rows[i].request_number[1] = "QR"
                     /\ rows[i].request_number[2] = month}) + 1
  IN <<"QR", month, Lpad(counter)>>

corsHeaders ==
  {"Access-Control-Allow-Origin", "Access-Control-Allow-Methods",
   "Access-Control-Allow-Headers"}

\* a value JavaScript treats as false in a condition
Falsy(v) == v = Null \/ v = ""

ServerService(id) ==
  [id |-> id, name |-> serviceTitleById(id), category |-> "catalog",
   description |-> Null]
ServerServiceLists ==
  {[i \in 1..n |-> ServerService(ClickOrder[i])] : n \in 0..NumOffered}

\* the request bodies explored: none at all, one without contact, and
\* contacts whose name or email is missing, empty or given
NoBody ==
  [defined |-> FALSE, hasContact |-> FALSE, name |-> Null, email |-> Null,
   hasServices |-> FALSE, services |-> <<>>]
ServerBodies ==
  {b \in [defined : BOOLEAN, hasContact : BOOLEAN,
          name : {Null, "", "Jane Doe"}, email : {Null, "", "jane@x.com"},
          hasServices : BOOLEAN, services : ServerServiceLists] :
     /\ ~b.defined => b = NoBody
     /\ ~b.hasContact => b.name = Null /\ b.email = Null
     /\ ~b.hasServices => b.services = <<>>}
Methods == {"OPTIONS", "GET", "POST"}

\* !data.contact?.name || !data.contact?.email || !data.services?.length
MissingRequired(data) ==
  \/ ~data.hasContact \/ Falsy(data.name)
  \/ Falsy(data.email)
  \/ ~data.hasServices \/ Len(data.services) = 0

NoNumber == <<>>
Response(status, keys, requestNumber, errorText, headers) ==
  [status |-> status, keys |-> keys, requestNumber |-> requestNumber,
   error |-> errorText, headers |-> headers]
NoResponse == Response(0, {}, NoNumber, Null, {})

NewCall(method, body) ==
  [method |-> method, body |-> body, pc |-> "received", res |-> NoResponse,
   quoteId |-> 0, requestNumber |-> NoNumber, dbError |-> Null,
   servicesError |-> Null, servicesInserted |-> FALSE]

\* res.status(n).json({error}) after the CORS headers were set
ErrorResponse(status, errorText) ==
  Response(status, {"error"}, NoNumber, errorText, corsHeaders)

Respond(c, call, res) ==
  calls' = [calls EXCEPT ![c] = [call EXCEPT !.pc = "responded", !.res = res]]

\* the handler up to its first await, for a request drawn from the given
\* methods and bodies
ReceiveFrom(methods, bodies) ==
  /\ Len(calls) < MaxCalls
  /\ \E method \in methods : \E body \in bodies :
       LET call == NewCall(method, body)
       IN calls' = Append(calls,
            IF method = "OPTIONS"
              THEN [call EXCEPT !.pc = "responded",
                                !.res = Response(200, {}, NoNumber, Null, {})]
            ELSE IF method # "POST"
              THEN [call EXCEPT !.pc = "responded",
                                !.res = ErrorResponse(405, "Method not allowed")]
            ELSE IF ~body.defined
              THEN [call EXCEPT !.pc = "responded",
                                !.res = ErrorResponse(500, "Internal server error")]
            ELSE IF MissingRequired(body)
              THEN [call EXCEPT !.pc = "responded",
                                !.res = ErrorResponse(400, "Missing required fields")]
            ELSE [call EXCEPT !.pc = "insertQuote"])
  /\ UNCHANGED <<selected, form, submitting, success, error, runs,
                 quote_requests, quote_request_services, emails, now, nEvents,
                 toggles, lookups, docs, mailCalls, vendorRuns, sent, txns>>

Receive == ReceiveFrom(Methods, ServerBodies)

\* the row the handler inserts, completed by the table defaults and trigger
ServerQuoteRowMut(data, id, number) ==
  [id |-> id, name |-> data.name, email |-> data.email, status |-> "new",
   request_number |-> number]
ServerQuoteRow(data, id, number) ==
  [id |-> id, name |-> data.name, email |-> data.email, status |-> "pending",
   request_number |-> number]

\* data.services.map(service => ({quote_request_id, service_name, ...}))
serverServiceInserts(services, quoteId) ==
  [i \in 1..Len(services) |->
     [quote_request_id |-> quoteId, service_name |-> services[i].name,
      custom_description |-> services[i].description,
      estimated_price |-> Null, final_price |-> Null]]

\* if (servicesError) console.error(...): the handler goes on
ServerServicesErrorAborts(servicesError) == FALSE

\* the handler's quote_requests insert resolves
ServerQuoteInsertResolves ==
  \E c \in 1..Len(calls) :
    /\ calls[c].pc = "insertQuote"
    /\ \/ LET id == Len(quote_requests) + 1
              number == generate_quote_request_number(quote_requests, now)
          IN /\ quote_requests' = Append(quote_requests,
                  ServerQuoteRow(calls[c].body, id, number))
             /\ calls' = [calls EXCEPT ![c] =
                  [@ EXCEPT !.quoteId = id, !.requestNumber = number,
                            !.pc = "insertServices"]]
       \/ \E e \in DbErrors :
            /\ Respond(c, [calls[c] EXCEPT !.dbError = e],
                       ErrorResponse(500, "Failed to save quote request"))
            /\ UNCHANGED quote_requests
       \/ /\ Respond(c, calls[c], ErrorResponse(500, "Internal server error"))
          /\ UNCHANGED quote_requests
    /\ UNCHANGED <<selected, form, submitting, success, error, runs,
                   quote_request_services, emails, now, nEvents, toggles,
                   lookups, docs, mailCalls, vendorRuns, sent, txns>>

\* the handler's quote_request_services insert resolves
ServerServicesInsertResolves ==
  \E c \in 1..Len(calls) :
    /\ calls[c].pc = "insertServices"
    /\ \/ /\ quote_request_services' = quote_request_services
                \o serverServiceInserts(calls[c].body.services, calls[c].quoteId)
          /\ calls' = [calls EXCEPT ![c] =
               [@ EXCEPT !.servicesInserted = TRUE, !.pc = "sendAdmin"]]
       \/ \E e \in DbErrors :
            /\ IF ServerServicesErrorAborts(e)
                 THEN Respond(c, [calls[c] EXCEPT !.servicesError = e],
                        ErrorResponse(500, "Failed to save selected services"))
                 ELSE calls' = [calls EXCEPT ![c] =
                        [@ EXCEPT !.servicesError = e, !.pc = "sendAdmin"]]
            /\ UNCHANGED quote_request_services
       \/ /\ Respond(c, calls[c], ErrorResponse(500, "Internal server error"))
          /\ UNCHANGED quote_request_services
    /\ UNCHANGED <<selected, form, submitting, success, error, runs,
                   quote_requests, emails, now, nEvents, toggles, lookups,
                 docs, mailCalls, vendorRuns,
                   sent, txns>>

\* res.status(200).json({success, requestNumber, message})
SuccessResponse(call) ==
  Response(200, {"success", "requestNumber", "message"}, call.requestNumber,
           Null, corsHeaders)

\* sendEmail(ADMIN_EMAIL, ...) resolves; a failed send throws into the catch
\* around both sends, which only logs
ServerAdminSendResolves ==
  \E c \in 1..Len(calls) : \E ok \in BOOLEAN :
    /\ calls[c].pc = "sendAdmin"
    /\ sent' = Append(sent, [call |-> c, kind |-> "admin", ok |-> ok])
    /\ IF ok
         THEN calls' = [calls EXCEPT ![c] = [@ EXCEPT !.pc = "sendClient"]]
         ELSE Respond(c, calls[c], SuccessResponse(calls[c]))
    /\ UNCHANGED <<selected, form, submitting, success, error, runs,
                   quote_requests, quote_request_services, emails, now,
                   nEvents, toggles, lookups, docs, mailCalls, vendorRuns, txns>>

\* sendEmail(data.contact.email, ...) resolves
ServerClientSendResolves ==
  \E c \in 1..Len(calls) : \E ok \in BOOLEAN :
    /\ calls[c].pc = "sendClient"
    /\ sent' = Append(sent, [call |-> c, kind |-> "client", ok |-> ok])
    /\ Respond(c, calls[c], SuccessResponse(calls[c]))
    /\ UNCHANGED <<selected, form, submitting, success, error, runs,
                   quote_requests, quote_request_services, emails, now,
                   nEvents, toggles, lookups, docs, mailCalls, vendorRuns, txns>>

NextServer ==
  \/ Receive
  \/ ServerQuoteInsertResolves
  \/ ServerServicesInsertResolves
  \/ ServerAdminSendResolves
  \/ ServerClientSendResolves

SpecServer == Init /\ [][NextServer]_vars

CallIds == 1..Len(calls)
CallResponded(c) == calls[c].pc = "responded"
SentOf(c) == {i \in 1..Len(sent) : sent[i].call = c}

\* C16: the handler answers 200 with {success, requestNumber} only when the
\* quote_requests insert and the quote_request_services insert both
\* succeeded, and a failure of either insert yields a 4xx/5xx response whose
\* body is {error}.
C16_SuccessOnlyAfterBothInserts ==
  \A c \in CallIds :
    CallResponded(c) =>
      /\ (calls[c].res.status = 200 /\ "success" \in calls[c].res.keys)
           => calls[c].quoteId # 0 /\ calls[c].servicesInserted
      /\ (calls[c].dbError # Null \/ calls[c].servicesError # Null)
           => calls[c].res.status >= 400 /\ calls[c].res.keys = {"error"}

\* a required field of the request is missing or empty
MissingInRequest(body) ==
  \/ ~body.defined
  \/ ~body.hasContact
  \/ body.name \in {Null, ""}
  \/ body.email \in {Null, ""}
  \/ ~body.hasServices
  \/ body.services = <<>>

\* C17: a POST whose contact.name, contact.email or services is missing or
\* empty is answered 400 with an {error} body, and the handler inserts no row
\* and sends no email for it.
C17_MissingFieldsRejected ==
  \A c \in CallIds :
    (CallResponded(c) /\ calls[c].method = "POST"
       /\ MissingInRequest(calls[c].body))
      => /\ calls[c].res.status = 400
         /\ calls[c].res.keys = {"error"}
         /\ calls[c].quoteId = 0
         /\ ~calls[c].servicesInserted
         /\ SentOf(c) = {}

\* ------------------------------------ concurrent inserts in the database
\* set_quote_request_number: only a missing or empty number is generated
NeedsNumber(supplied) == supplied = Null \/ supplied = ""

NewTxn(supplied) == [pc |-> "begin", request_number |-> supplied]

\* an INSERT INTO quote_requests statement starts
DbBegin ==
  /\ Len(txns) < MaxTxns
  /\ \E supplied \in {Null, ""} : txns' = Append(txns, NewTxn(supplied))
  /\ UNCHANGED <<selected, form, submitting, success, error, runs,
                 quote_requests, quote_request_services, emails, now, nEvents,
                 toggles, lookups, docs, mailCalls, vendorRuns, calls, sent>>

\* the BEFORE INSERT trigger counts the rows this statement can see, which
\* are the committed ones
DbTrigger ==
  \E t \in 1..Len(txns) :
    /\ txns[t].pc = "begin"
    /\ txns' = [txns EXCEPT ![t] =
         [pc |-> "generated",
          request_number |->
            IF NeedsNumber(txns[t].request_number)
              THEN generate_quote_request_number(quote_requests, now)
              ELSE txns[t].request_number]]
    /\ UNCHANGED <<selected, form, submitting, success, error, runs,
                   quote_requests, quote_request_services, emails, now,
                   nEvents, toggles, lookups, docs, mailCalls, vendorRuns, calls, sent>>

\* request_number VARCHAR(20) UNIQUE NOT NULL
UniqueViolation(rows, number) ==
  \E i \in 1..Len(rows) : rows[i].request_number = number

\* the row is written and the statement commits, unless the UNIQUE
\* constraint on request_number rejects it
DbCommit ==
  \E t \in 1..Len(txns) :
    /\ txns[t].pc = "generated"
    /\ IF UniqueViolation(quote_requests, txns[t].request_number)
         THEN /\ txns' = [txns EXCEPT ![t].pc = "rejected"]
              /\ UNCHANGED quote_requests
         ELSE /\ txns' = [txns EXCEPT ![t].pc = "committed"]
              /\ quote_requests' = Append(quote_requests,
                   [id |-> t, name |-> "Jane Doe", email |-> "jane@x.com",
                    status |-> "pending",
                    request_number |-> txns[t].request_number])
    /\ UNCHANGED <<selected, form, submitting, success, error, runs,
                   quote_request_services, emails, now, nEvents, toggles,
                   lookups, docs, mailCalls, vendorRuns, calls, sent>>

\* the database clock advances
DbTick ==
  /\ now < MaxClock
  /\ now' = now + 1
  /\ UNCHANGED <<selected, form, submitting, success, error, runs,
                 quote_requests, quote_request_services, emails, nEvents,
                 toggles, lookups, docs, mailCalls, vendorRuns, calls, sent, txns>>

NextDb ==
  \/ DbBegin
  \/ DbTrigger
  \/ DbCommit
  \/ DbTick

SpecDb == Init /\ [][NextDb]_vars

TxnIds == 1..Len(txns)
HoldsNumber(t) == txns[t].pc \in {"generated", "committed"}

\* C18: under any interleaving of concurrent inserts without a supplied
\* request_number, the generated number is held by no other persisted or
\* in-flight row, and no insert is rejected by the UNIQUE constraint.
C18_RequestNumbersUnique ==
  /\ \A t \in TxnIds : txns[t].pc # "rejected"
  /\ \A t1, t2 \in TxnIds :
       (t1 # t2 /\ HoldsNumber(t1) /\ HoldsNumber(t2))
         => txns[t1].request_number # txns[t2].request_number

\* ------------------------------------- both submission paths on one database
\* the form filled in, with or without a selected service
FilledForm == [EmptyForm EXCEPT !.name = "Jane Doe", !.email = "jane@x.com"]
InitBoth ==
  /\ selected \in {<<>>, <<ClickOrder[1]>>}
  /\ form = FilledForm
  /\ submitting = FALSE
  /\ success = Null
  /\ error = Null
  /\ runs = <<>>
  /\ quote_requests = <<>>
  /\ quote_request_services = <<>>
  /\ emails = <<>>
  /\ now = 0
  /\ nEvents = MaxEvents
  /\ toggles = [id \in ToggleIds |-> 0]
  /\ lookups = <<>>
  /\ docs = <<>>
  /\ mailCalls = <<>>
  /\ vendorRuns = <<>>
  /\ calls = <<>>
  /\ sent = <<>>
  /\ txns = <<>>

\* requests that pass the handler's validation, and one without a body
BothBodies == {b \in ServerBodies : ~MissingRequired(b)} \cup {NoBody}
ReceiveBoth ==
  /\ Len(runs) + Len(calls) < MaxBoth
  /\ ReceiveFrom(Methods, BothBodies)
SubmitBoth ==
  /\ Len(runs) + Len(calls) < MaxBoth
  /\ HandleSubmit

NextBoth ==
  \/ SubmitBoth
  \/ QuoteInsertResolves
  \/ ServicesInsertResolves
  \/ AdminSendResolves
  \/ ClientSendResolves
  \/ ReceiveBoth
  \/ ServerQuoteInsertResolves
  \/ ServerServicesInsertResolves
  \/ ServerAdminSendResolves
  \/ ServerClientSendResolves

SpecBoth == InitBoth /\ [][NextBoth]_vars

IsPrefix(old, new) ==
  Len(old) <= Len(new) /\ SubSeq(new, 1, Len(old)) = old

\* C20: every quote_requests row, inserted by the browser form or by the
\* handler, has status "pending", and no step changes or removes a row of
\* quote_requests or quote_request_services: both tables only grow at the end.
C20_RowsPendingAndNeverChanged ==
  [][/\ IsPrefix(quote_requests, quote_requests')
     /\ IsPrefix(quote_request_services, quote_request_services')
     /\ \A i \in 1..Len(quote_requests') :
          quote_requests'[i].status = "pending"]_vars
\* a browser row and a handler row, each with a service row after it
C20_Witness ==
  /\ \E i \in 1..Len(quote_requests) :
       quote_requests[i].request_number[1] = "REQ-"
  /\ \E i \in 1..Len(quote_requests) :
       quote_requests[i].request_number[1] = "QR"
  /\ \A i \in 1..Len(quote_requests) :
       \E j \in 1..Len(quote_request_services) :
         quote_request_services[j].quote_request_id = quote_requests[i].id

\* ------------------------------------------------ the form's state alone
\* C21: in every reachable state of the form, every id in the selection is
\* the id of a service of SERVICE_CATEGORIES.
C21_SelectionWithinCatalog ==
  \A i \in 1..Len(selected) : selected[i] \in CatalogServiceIds
\* two services selected, after an attempt was made with a different selection
C21_Witness ==
  /\ Len(selected) = 2
  /\ \E r \in RunIds : runs[r].selected # selected

\* C22: a service toggled or a field edited while a submission is in flight
\* is not discarded when the submission resolves: a selection or form that
\* differs from the snapshot the submission persisted and sent is left as it
\* is by the resolving step.
C22_InFlightChangesKept ==
  [][\A r \in RunIds :
       (runs[r].pc \in InFlight /\ runs'[r].pc \in Resolved)
         => /\ selected # runs[r].selected => selected' = selected
            /\ form # runs[r].form => form' = form]_vars

\* C23: a submission whose two inserts succeeded has issued the admin
\* notification send by the time it resolves, since what the submit-time
\* check accepts validateQuoteRequestData accepts too.
C23_PersistedRequestIsNotified ==
  \A r \in RunIds :
    (runs[r].pc \in Resolved /\ BothInsertsSucceeded(runs[r]))
      => /\ validateQuoteRequestData(
              emailData(runs[r].form, runs[r].selected, runs[r].timestamp)) = <<>>
         /\ \E i \in 1..Len(EmailsOf(r)) : EmailsOf(r)[i].kind = "admin"

\* C26: at most one of the success message and the error message is
\* displayed, so an attempt that ends with an error leaves no success message
\* of an earlier submission on screen.
C26_SuccessAndErrorExclusive == ~(success # Null /\ error # Null)

\* C27: a handleChange step, the only one that counts an event and leaves the
\* selection alone, changes exactly one form field and nothing else: not the
\* selection, the submitting flag, the messages, the runs or the tables; the
\* value is stored as typed, a malformed email included.
C27_HandleChangeFrame ==
  [][(nEvents' # nEvents /\ selected' = selected)
       => /\ \E name \in Fields :
               /\ form'[name] # form[name]
               /\ \A other \in Fields \ {name} : form'[other] = form[other]
          /\ submitting' = submitting
          /\ success' = success /\ error' = error
          /\ runs' = runs /\ emails' = emails
          /\ quote_requests' = quote_requests
          /\ quote_request_services' = quote_request_services]_vars
\* a second field typed, its malformed value kept, while a submission is in
\* flight
C27_Witness ==
  /\ form.name = "Jane Doe" /\ form.email = "jane"
  /\ error = Null
  /\ submitting


\* --------------------------------------------- the two notification paths
BrowserSendsIndependent ==
  \A r \in RunIds :
    (runs[r].pc \in Resolved
       /\ \E i \in 1..Len(EmailsOf(r)) : EmailsOf(r)[i].kind = "admin")
      => \E i \in 1..Len(EmailsOf(r)) : EmailsOf(r)[i].kind = "client"
HandlerSendsIndependent ==
  \A c \in CallIds :
    (CallResponded(c) /\ \E i \in SentOf(c) : sent[i].kind = "admin")
      => \E i \in SentOf(c) : sent[i].kind = "client"

\* C24: in the browser emailService and in the handler alike, a submission
\* whose admin notification send was attempted, whether it succeeded or
\* failed, has its client confirmation send attempted too.
C24_SendsIndependent == BrowserSendsIndependent /\ HandlerSendsIndependent

\* -------------------------------------------------- generateQuoteRequestPDF
\* lengths are in hundredths of a millimetre, the unit of new jsPDF() being mm
Mm == 100
\* doc.internal.pageSize.getHeight() of the default A4 portrait page
PageHeight == 297 * Mm
lineHeight == 8 * Mm
sectionSpacing == 15 * Mm
BottomMargin == 20 * Mm
\* the distance doc.text puts between the lines of one call: 10 pt * 1.15
TextLineStep == 406

NewDoc == [y |-> 20 * Mm, page |-> 1, drawn |-> <<>>]

\* addText: one doc.text call, returns y + lines.length * lineHeight
addText(doc, lines) ==
  [doc EXCEPT !.y = @ + lines * lineHeight]

\* addSectionHeader
addSectionHeader(doc) == [doc EXCEPT !.y = @ + 20 * Mm]

\* addField: the label and the wrapped value are drawn from y downwards; an
\* empty value draws nothing
addField(doc, lines) ==
  IF lines = 0 THEN doc
  ELSE [doc EXCEPT
          !.drawn = @ \o [j \in 1..lines |->
                            [page |-> doc.page,
                             y |-> doc.y + (j - 1) * TextLineStep]],
          !.y = @ + lines * lineHeight + 3 * Mm]

\* checkNewPage(currentY, requiredSpace = 30)
checkNewPage(doc) ==
  IF doc.y + 30 * Mm > PageHeight - BottomMargin
    THEN [doc EXCEPT !.page = @ + 1, !.y = 20 * Mm]
    ELSE doc

\* data.selectedServices.forEach(service => addField(...)), each title on
\* one line
RECURSIVE addServiceFields(_, _)
addServiceFields(doc, n) ==
  IF n = 0 THEN doc ELSE addField(addServiceFields(doc, n - 1), 1)

generateQuoteRequestPDF(nameLines, services, messageLines) ==
  LET d0 == [NewDoc EXCEPT !.y = 50 * Mm]
      d1 == [addText(d0, 1) EXCEPT !.y = @ + sectionSpacing]
      \* Contact Information: name, company, email, phone
      d2 == addSectionHeader(checkNewPage(d1))
      d3 == addField(addField(addField(addField(d2, nameLines), 1), 1), 1)
      d4 == [d3 EXCEPT !.y = @ + sectionSpacing]
      \* Project Details: budget, timeline
      d5 == addSectionHeader(checkNewPage(d4))
      d6 == addField(addField(d5, 1), 1)
      d7 == [d6 EXCEPT !.y = @ + sectionSpacing]
      \* Requested Services
      d8 == addSectionHeader(checkNewPage(d7))
      d9 == IF services > 0 THEN addServiceFields(d8, services)
                            ELSE addField(d8, 1)
      d10 == [d9 EXCEPT !.y = @ + sectionSpacing]
      \* Additional Information
  IN IF messageLines > 0
       THEN addField(addSectionHeader(checkNewPage(d10)), messageLines)
       ELSE d10

\* a PDF is generated for some quote request
GeneratePdf ==
  /\ docs = <<>>
  /\ \E nameLines \in 1..MaxNameLines : \E services \in 1..MaxPdfServices :
       \E messageLines \in 0..MaxMessageLines :
         docs' = <<[nameLines |-> nameLines, services |-> services,
                    messageLines |-> messageLines,
                    doc |-> generateQuoteRequestPDF(nameLines, services,
                                                    messageLines)]>>
  /\ UNCHANGED <<selected, form, submitting, success, error, runs,
                 quote_requests, quote_request_services, emails, now, nEvents,
                 toggles, lookups, calls, sent, txns, mailCalls, vendorRuns>>

SpecPdf == Init /\ [][GeneratePdf]_vars

\* C25: in every generated PDF each label/value line is drawn at a vertical
\* position no greater than the page height minus the 20 mm bottom margin.
C25_LinesAboveBottomMargin ==
  \A k \in 1..Len(docs) : \A i \in 1..Len(docs[k].doc.drawn) :
    docs[k].doc.drawn[i].y <= PageHeight - BottomMargin

\* ------------------------------------------------- the send-email handler
NoMailBody ==
  [defined |-> FALSE, to |-> Null, subject |-> Null, html |-> Null,
   attachments |-> 0]
MailBodies ==
  {NoMailBody}
  \cup [defined : {TRUE}, to : {Null, "", "jane@x.com"},
        subject : {Null, "", "Quote"}, html : {Null, "", "<p>hi</p>"},
        attachments : {0, 1}]

\* !emailData.to || !emailData.subject || !emailData.html
MailMissingRequired(mail) ==
  Falsy(mail.to) \/ Falsy(mail.subject) \/ Falsy(mail.html)

\* what the call to the provider can come to: an answer with a status and a
\* body that parses as JSON or does not, or a rejected fetch
ProviderOutcomes ==
  [kind : {"answer"}, status : {200, 422, 500}, text : {"{\"id\":\"e1\"}", "oops"}]
  \cup {[kind |-> "rejected", status |-> 0, text |-> "fetch failed"]}
ResponseOk(outcome) == outcome.status >= 200 /\ outcome.status <= 299
ParsesAsJson(text) == text = "{\"id\":\"e1\"}"
NoOutcome == [kind |-> "none", status |-> 0, text |-> ""]

MailResponse(status, keys, errorText, details, headers) ==
  [status |-> status, keys |-> keys, error |-> errorText,
   details |-> details, headers |-> headers]
\* the details text: what precedes the status, the status, and the body text
Details(prefix, status, text) ==
  [prefix |-> prefix, status |-> status, text |-> text]
NoDetails == Details("", 0, "")
NewMailCall(method, body) ==
  [method |-> method, body |-> body, pc |-> "received",
   res |-> MailResponse(0, {}, Null, NoDetails, {}), payload |-> <<>>,
   outcome |-> NoOutcome]

\* catch (error): 500 with error.message as details
MailFailure(details) ==
  MailResponse(500, {"error", "details"}, "Failed to send email", details,
               corsHeaders)

\* the send-email handler up to the fetch inside sendEmail
MailReceiveFrom(methods, bodies) ==
  /\ Len(mailCalls) < MaxMailCalls
  /\ \E method \in methods : \E body \in bodies :
       LET call == NewMailCall(method, body)
           respond(res) == [call EXCEPT !.pc = "responded", !.res = res]
       IN mailCalls' = Append(mailCalls,
            IF method = "OPTIONS"
              THEN respond(MailResponse(200, {"message"}, Null, NoDetails, {}))
            ELSE IF method # "POST"
              THEN respond(MailResponse(405, {"error"}, "Method not allowed",
                                        NoDetails, corsHeaders))
            ELSE IF ~body.defined
              THEN respond(MailFailure(Details("TypeError", 0, "")))
            ELSE IF MailMissingRequired(body)
              THEN respond(MailResponse(400, {"error"},
                     "Missing required fields: to, subject, html", NoDetails,
                     corsHeaders))
            ELSE [call EXCEPT !.pc = "fetch",
                    !.payload = <<[to |-> <<body.to>>, subject |-> body.subject,
                                   html |-> body.html,
                                   attachments |-> body.attachments]>>])
  /\ UNCHANGED <<selected, form, submitting, success, error, runs,
                 quote_requests, quote_request_services, emails, now, nEvents,
                 toggles, lookups, calls, sent, txns, docs, vendorRuns>>

MailReceive == MailReceiveFrom(Methods, MailBodies)

\* the provider's answer arrives: sendEmail throws on a non-ok response and
\* returns response.json() otherwise
MailFetchResolves ==
  \E c \in 1..Len(mailCalls) : \E outcome \in ProviderOutcomes :
    /\ mailCalls[c].pc = "fetch"
    /\ mailCalls' = [mailCalls EXCEPT ![c] =
         [@ EXCEPT !.pc = "responded", !.outcome = outcome,
            !.res =
              IF outcome.kind = "rejected"
                THEN MailFailure(Details("", 0, outcome.text))
              ELSE IF ~ResponseOk(outcome)
                THEN MailFailure(Details("Resend API error: ", outcome.status,
                                     outcome.text))
              ELSE IF ~ParsesAsJson(outcome.text)
                THEN MailFailure(Details("SyntaxError", 0, ""))
              ELSE MailResponse(200, {"success", "message", "id"}, Null,
                                NoDetails, corsHeaders)]]
    /\ UNCHANGED <<selected, form, submitting, success, error, runs,
                   quote_requests, quote_request_services, emails, now,
                   nEvents, toggles, lookups, calls, sent, txns, docs,
                   vendorRuns>>

NextSendEmail ==
  \/ MailReceive
  \/ MailFetchResolves

SpecSendEmail == Init /\ [][NextSendEmail]_vars

MailCallIds == 1..Len(mailCalls)
MailResponded(c) == mailCalls[c].pc = "responded"
ProviderCalled(c) == mailCalls[c].payload # <<>>
MailFieldMissing(body) ==
  \/ ~body.defined
  \/ body.to \in {Null, ""}
  \/ body.subject \in {Null, ""}
  \/ body.html \in {Null, ""}

\* C28: a POST to the send-email handler with to, subject or html missing is
\* answered 400 without a call to the provider; a non-2xx answer of the
\* provider is answered 500 with details holding the provider's status and
\* body; 200 with success is answered only after a 2xx answer of the provider.
C28_SendEmailResponses ==
  \A c \in MailCallIds :
    (MailResponded(c) /\ mailCalls[c].method = "POST") =>
      /\ MailFieldMissing(mailCalls[c].body)
           => mailCalls[c].res.status = 400 /\ ~ProviderCalled(c)
      /\ (mailCalls[c].outcome.kind = "answer"
            /\ ~ResponseOk(mailCalls[c].outcome))
           => /\ mailCalls[c].res.status = 500
              /\ "details" \in mailCalls[c].res.keys
              /\ mailCalls[c].res.details.status = mailCalls[c].outcome.status
              /\ mailCalls[c].res.details.text = mailCalls[c].outcome.text
      /\ (mailCalls[c].res.status = 200 /\ "success" \in mailCalls[c].res.keys)
           => /\ mailCalls[c].outcome.kind = "answer"
              /\ ResponseOk(mailCalls[c].outcome)

\* ------------------------------------------------ both handlers deployed
QuoteReceive ==
  /\ Len(calls) + Len(mailCalls) < MaxHandlerCalls
  /\ ReceiveFrom(Methods, ServerBodies)
SendEmailReceive ==
  /\ Len(calls) + Len(mailCalls) < MaxHandlerCalls
  /\ MailReceiveFrom(Methods, MailBodies)

NextHandlers ==
  \/ QuoteReceive
  \/ ServerQuoteInsertResolves
  \/ ServerServicesInsertResolves
  \/ ServerAdminSendResolves
  \/ ServerClientSendResolves
  \/ SendEmailReceive
  \/ MailFetchResolves

SpecHandlers == Init /\ [][NextHandlers]_vars

\* C29: every response of the quote-request handler and of the send-email
\* handler, the one to an OPTIONS preflight included, carries the three
\* Access-Control-Allow-* headers.
C29_EveryResponseHasCorsHeaders ==
  /\ \A c \in CallIds :
       CallResponded(c) => corsHeaders \subseteq calls[c].res.headers
  /\ \A c \in MailCallIds :
       MailResponded(c) => corsHeaders \subseteq mailCalls[c].res.headers

\* ------------------------------------------------------- submitVendorQuote
\* the relationship lists of the vendor and of the quote
VendorKinds ==
  {"businessTypes", "productCategories", "targetMarkets", "preferredLocations"}
QuoteKinds == {"pricingModels", "storeTiers"}
KindOrder ==
  <<"businessTypes", "pricingModels", "productCategories", "storeTiers",
    "targetMarkets", "preferredLocations">>
RelationKinds == {KindOrder[i] : i \in 1..NumRelationKinds}

VendorResult(ok, errorText) == [success |-> ok, error |-> errorText]
NewVendorRun(requested, documents) ==
  [pc |-> "insertVendor", requested |-> requested, documents |-> documents,
   vendorId |-> 0, quoteId |-> 0,
   outcomes |-> [k \in requested |-> "pending"],
   result |-> VendorResult(FALSE, Null)]

\* submitVendorQuote up to its first await
VendorSubmit ==
  /\ Len(vendorRuns) < MaxVendorRuns
  /\ \E requested \in SUBSET RelationKinds : \E documents \in BOOLEAN :
       vendorRuns' = Append(vendorRuns, NewVendorRun(requested, documents))
  /\ UNCHANGED <<selected, form, submitting, success, error, runs,
                 quote_requests, quote_request_services, emails, now, nEvents,
                 toggles, lookups, calls, sent, txns, docs, mailCalls>>

VendorReturn(v, run, result) ==
  vendorRuns' = [vendorRuns EXCEPT ![v] =
                   [run EXCEPT !.pc = "returned", !.result = result]]
\* catch (error): error.message of an Error, 'Unknown error' otherwise
VendorCaught(x) ==
  VendorResult(FALSE, IF x.isError THEN x.message ELSE "Unknown error")

\* the vendors insert resolves
VendorInsertResolves ==
  \E v \in 1..Len(vendorRuns) :
    /\ vendorRuns[v].pc = "insertVendor"
    /\ \/ vendorRuns' = [vendorRuns EXCEPT ![v] =
            [@ EXCEPT !.vendorId = v, !.pc = "insertQuote"]]
       \/ \E e \in DbErrors :
            VendorReturn(v, vendorRuns[v], VendorResult(FALSE, e))
       \/ \E x \in Rejections : VendorReturn(v, vendorRuns[v], VendorCaught(x))
    /\ UNCHANGED <<selected, form, submitting, success, error, runs,
                   quote_requests, quote_request_services, emails, now,
                   nEvents, toggles, lookups, calls, sent, txns, docs,
                   mailCalls>>

\* the quotes insert resolves
VendorQuoteInsertResolves ==
  \E v \in 1..Len(vendorRuns) :
    /\ vendorRuns[v].pc = "insertQuote"
    /\ \/ vendorRuns' = [vendorRuns EXCEPT ![v] =
            [@ EXCEPT !.quoteId = v, !.pc = "vendorRelationships"]]
       \/ \E e \in DbErrors :
            VendorReturn(v, vendorRuns[v], VendorResult(FALSE, e))
       \/ \E x \in Rejections : VendorReturn(v, vendorRuns[v], VendorCaught(x))
    /\ UNCHANGED <<selected, form, submitting, success, error, runs,
                   quote_requests, quote_request_services, emails, now,
                   nEvents, toggles, lookups, calls, sent, txns, docs,
                   mailCalls>>

\* what one relationship insert comes to: rows written, an error returned in
\* the result object, or a rejected promise
InsertOutcomes == {"ok", "error", "rejected"}

\* await Promise.all(insertPromises): only a rejection throws; the result
\* objects, and the errors in them, are dropped
PromiseAllThrows(outcomes, kinds) ==
  \E k \in kinds : outcomes[k] = "rejected"

\* Promise.all over the inserts of the given kinds settles, and the run goes
\* on to the given step or returns from the catch
RelationshipsResolve(v, kinds, nextPc) ==
  LET run == vendorRuns[v]
      mine == run.requested \cap kinds
  IN \E outcome \in [mine -> InsertOutcomes] :
       LET outcomes == [k \in run.requested |->
                          IF k \in mine THEN outcome[k] ELSE run.outcomes[k]]
           settled == [run EXCEPT !.outcomes = outcomes]
       IN IF PromiseAllThrows(outcomes, mine)
            THEN VendorReturn(v, settled, VendorCaught(
                   [isError |-> TRUE, message |-> "TypeError: Failed to fetch"]))
            ELSE IF nextPc = "returned"
              THEN VendorReturn(v, settled, VendorResult(TRUE, Null))
              ELSE vendorRuns' = [vendorRuns EXCEPT ![v] =
                     [settled EXCEPT !.pc = nextPc]]

\* insertVendorRelationships settles
VendorRelationshipsResolve ==
  \E v \in 1..Len(vendorRuns) :
    /\ vendorRuns[v].pc = "vendorRelationships"
    /\ RelationshipsResolve(v, VendorKinds, "quoteRelationships")
    /\ UNCHANGED <<selected, form, submitting, success, error, runs,
                   quote_requests, quote_request_services, emails, now,
                   nEvents, toggles, lookups, calls, sent, txns, docs,
                   mailCalls>>

\* insertQuoteRelationships settles; processDocuments follows if there is
\* document metadata
QuoteRelationshipsResolve ==
  \E v \in 1..Len(vendorRuns) :
    /\ vendorRuns[v].pc = "quoteRelationships"
    /\ RelationshipsResolve(v, QuoteKinds,
         IF vendorRuns[v].documents THEN "documents" ELSE "returned")
    /\ UNCHANGED <<selected, form, submitting, success, error, runs,
                   quote_requests, quote_request_services, emails, now,
                   nEvents, toggles, lookups, calls, sent, txns, docs,
                   mailCalls>>

\* processDocuments settles
DocumentsResolve ==
  \E v \in 1..Len(vendorRuns) :
    /\ vendorRuns[v].pc = "documents"
    /\ \/ VendorReturn(v, vendorRuns[v], VendorResult(TRUE, Null))
       \/ \E x \in Rejections : VendorReturn(v, vendorRuns[v], VendorCaught(x))
    /\ UNCHANGED <<selected, form, submitting, success, error, runs,
                   quote_requests, quote_request_services, emails, now,
                   nEvents, toggles, lookups, calls, sent, txns, docs,
                   mailCalls>>

NextVendor ==
  \/ VendorSubmit
  \/ VendorInsertResolves
  \/ VendorQuoteInsertResolves
  \/ VendorRelationshipsResolve
  \/ QuoteRelationshipsResolve
  \/ DocumentsResolve

SpecVendor == Init /\ [][NextVendor]_vars

\* C30: submitVendorQuote returns success=true only if the vendor row, the
\* quote row and every requested relationship insert succeeded.
C30_SuccessOnlyIfAllInserted ==
  \A v \in 1..Len(vendorRuns) :
    (vendorRuns[v].pc = "returned" /\ vendorRuns[v].result.success)
      => /\ vendorRuns[v].vendorId # 0
         /\ vendorRuns[v].quoteId # 0
         /\ \A k \in vendorRuns[v].requested : vendorRuns[v].outcomes[k] = "ok"

====
